---- MODULE Spec2Model ----
(***************************************************************************)
(* Resume ranking service (CvJachai): ingestion of uploads into a scratch  *)
(* directory, batch text extraction, skill/experience bonus, score         *)
(* blending, ranking, and the two request handlers (FastAPI rank_resumes   *)
(* in app.py, Django ResumeClassifyAPIView.post in views.py).              *)
(*                                                                         *)
(* Numbers: Python floats are modelled in exact fixed point, ONE units per *)
(* 1.0; a surfaced (rounded) score is an integer count of 1e-4.            *)
(* Strings that the code searches (resume text, skills, year phrases) are  *)
(* sequences of one-character strings.  Exceptions are modelled as a       *)
(* status value returned beside the result.                                *)
(***************************************************************************)
EXTENDS Integers, Sequences, FiniteSets, TLC

VARIABLES
    handler,       \* "app" (app.py rank_resumes) or "views" (views.py post)
    request,       \* the form fields of the request being handled
    pc,            \* position of the handler in its body
    temp_dir,      \* local temp_dir: 0 is None, otherwise the directory's id
    dirs,          \* scratch directories that exist on disk
    tree,          \* files inside the scratch directory: path -> [content, src]
    resumes,       \* dict filename -> path, as a sequence in insertion order
    expanded,      \* history: what each extract_resumes_from_zip call returned
    resume_texts,  \* dict filename -> text, as a sequence in insertion order
    results,       \* the handler's results list
    response,      \* the response the handler returns
    temp_dirs,     \* app.py module-level list temp_dirs
    call           \* one application of a pure function of utils.py

vars == <<handler, request, pc, temp_dir, dirs, tree, resumes, expanded,
          resume_texts, results, response, temp_dirs, call>>

handlerVars == <<handler, request, pc, temp_dir, dirs, tree, resumes, expanded,
                 resume_texts, results, response, temp_dirs>>

----------------------------------------------------------------------------
(* Bounds of the model *)

MaxFiles == 2
MaxTopK == 2
MaxSkills == 3
MaxExp == 3

----------------------------------------------------------------------------
(* Fixed point *)

ONE == 12 * 100000

Min(a, b) == IF a <= b THEN a ELSE b

Max(a, b) == IF a >= b THEN a ELSE b

\* Python round(x, 4) of the value num / (10 * ONE): the nearest multiple of
\* 1e-4, a half going to the even neighbour; the result counts 1e-4 units.
Round4(num) ==
    LET unit == (10 * ONE) \div 10000
        q == num \div unit
        r == num % unit
    IN  IF 2 * r < unit THEN q
        ELSE IF 2 * r > unit THEN q + 1
        ELSE IF q % 2 = 0 THEN q ELSE q + 1

----------------------------------------------------------------------------
(* Strings *)

Upper == <<"A","B","C","D","E","F","G","H","I","J","K","L","M",
           "N","O","P","Q","R","S","T","U","V","W","X","Y","Z">>

Lowercase == <<"a","b","c","d","e","f","g","h","i","j","k","l","m",
               "n","o","p","q","r","s","t","u","v","w","x","y","z">>

\* str.lower() on one character
LowerChar(c) ==
    IF \E i \in 1..26 : Upper[i] = c
    THEN Lowercase[CHOOSE i \in 1..26 : Upper[i] = c]
    ELSE c

\* str.lower()
Lower(s) == [i \in 1..Len(s) |-> LowerChar(s[i])]

\* Python "s in t" on strings
IsSubstr(s, t) ==
    \E i \in 0..(Len(t) - Len(s)) : SubSeq(t, i + 1, i + Len(s)) = s

DigitChar == <<"0","1","2","3","4","5","6","7","8","9">>

RECURSIVE NatStr(_)
NatStr(n) ==
    IF n < 10 THEN <<DigitChar[n + 1]>>
    ELSE NatStr(n \div 10) \o <<DigitChar[(n % 10) + 1]>>

\* f"{n}" for an int
IntStr(n) == IF n < 0 THEN <<"-">> \o NatStr(0 - n) ELSE NatStr(n)

YearsSuffix == <<" ","y","e","a","r","s">>

PlusYearsSuffix == <<"+"," ","y","e","a","r","s">>

----------------------------------------------------------------------------
(* utils.py: calculate_skill_bonus *)

\* the skills loop: one count per list position whose lower-cased skill occurs
RECURSIVE SkillsFoundFrom(_, _, _)
SkillsFoundFrom(resume_lower, skills, i) ==
    IF i > Len(skills) THEN 0
    ELSE (IF IsSubstr(Lower(skills[i]), resume_lower) THEN 1 ELSE 0)
         + SkillsFoundFrom(resume_lower, skills, i + 1)

\* the mutated skills loop counts each distinct skill once
SkillComponentDistinct(resume_text, skills) ==
    IF skills # <<>>
    THEN LET found == {i \in 1..Len(skills) :
                          /\ IsSubstr(Lower(skills[i]), Lower(resume_text))
                          /\ \A j \in 1..(i - 1) : skills[j] # skills[i]}
         IN  (((Cardinality(found) * ONE) \div Len(skills)) * 5) \div 10
    ELSE 0

\* bonus after the skills block: (skills_found / len(skills)) * 0.5
SkillComponent(resume_text, skills) ==
    IF skills # <<>>
    THEN LET skills_found == SkillsFoundFrom(Lower(resume_text), skills, 1)
         IN  IF Len(skills) > 0
             THEN (((skills_found * ONE) \div Len(skills)) * 5) \div 10
             ELSE 0
    ELSE 0

\* the list experience_indicators
experience_indicators(min_experience) ==
    <<IntStr(min_experience) \o PlusYearsSuffix,
      IntStr(min_experience) \o YearsSuffix>>
    \o [i \in 1..19 |-> IntStr(min_experience + i) \o YearsSuffix]

\* the mutated indicator loop has no break: every match adds 0.3
RECURSIVE IndicatorLoopNoBreak(_, _, _)
IndicatorLoopNoBreak(indicators, resume_lower, i) ==
    IF i > Len(indicators) THEN 0
    ELSE (IF IsSubstr(Lower(indicators[i]), resume_lower)
          THEN (3 * ONE) \div 10 ELSE 0)
         + IndicatorLoopNoBreak(indicators, resume_lower, i + 1)

\* the indicator loop: 0.3 at the first match, then break
RECURSIVE IndicatorLoop(_, _, _)
IndicatorLoop(indicators, resume_lower, i) ==
    IF i > Len(indicators) THEN 0
    ELSE IF IsSubstr(Lower(indicators[i]), resume_lower)
         THEN (3 * ONE) \div 10
         ELSE IndicatorLoop(indicators, resume_lower, i + 1)

\* what the experience block adds to bonus
ExperienceComponent(resume_text, min_experience) ==
    IF min_experience > 0
    THEN IndicatorLoop(experience_indicators(min_experience),
                       Lower(resume_text), 1)
    ELSE 0

calculate_skill_bonus(resume_text, skills, min_experience) ==
    Min(SkillComponent(resume_text, skills)
        + ExperienceComponent(resume_text, min_experience), ONE)

----------------------------------------------------------------------------
(* Inputs of the pure-function specifications *)

TextPython3 == <<"3"," ","y","e","a","r","s"," ","P","y","t","h","o","n">>

TextDjango13 == <<"1","3"," ","Y","E","A","R","S"," ","d","j","a","n","g","o">>

TextPlus2 == <<"2","+"," ","y","e","a","r","s"," ","p","y">>

TextTen == <<"1","0"," ","y","e","a","r","s">>

TextNone == <<"j","a","v","a"," ","1"," ","y","e","a","r">>

Text22 == <<"2","2"," ","y","e","a","r","s"," ","p","y","t","h","o","n"," ","D","j","a","n","g","o">>

Texts == {<<>>, TextPython3, TextDjango13, TextPlus2, TextTen, TextNone, Text22}

SkillPython == <<"p","y","t","h","o","n">>

SkillDjango == <<"D","j","a","n","g","o">>

SkillPy == <<"p","y">>

SkillVocabulary == {SkillPython, SkillDjango, SkillPy}

SkillLists == UNION {[1..n -> SkillVocabulary] : n \in 0..MaxSkills}

MinExperiences == (-1)..MaxExp

NoCall == [pc |-> "none"]

\* no response has been built yet
NoResponse ==
    [status |-> 0, error |-> "", ranked_resumes |-> <<>>, total_resumes |-> 0,
     top_k |-> 0]

\* the handler is not running (pure-function specifications)
HandlerIdle ==
    /\ handler = "none"
    /\ request = <<>>
    /\ pc = "idle"
    /\ temp_dir = 0
    /\ dirs = {}
    /\ tree = <<>>
    /\ resumes = <<>>
    /\ expanded = <<>>
    /\ resume_texts = <<>>
    /\ results = <<>>
    /\ response = NoResponse
    /\ temp_dirs = <<>>

BonusInit ==
    /\ HandlerIdle
    /\ call \in [pc : {"called"}, resume_text : Texts, skills : SkillLists,
                 min_experience : MinExperiences,
                 skill_part : {0}, exp_part : {0}, out : {0}]

\* one call of calculate_skill_bonus; skill_part is bonus after the skills
\* block, exp_part what the experience block added
CalcBonus ==
    /\ call.pc = "called"
    /\ call' = [call EXCEPT
                  !.pc = "returned",
                  !.skill_part = SkillComponent(call.resume_text, call.skills),
                  !.exp_part = ExperienceComponent(call.resume_text,
                                                   call.min_experience),
                  !.out = calculate_skill_bonus(call.resume_text, call.skills,
                                                call.min_experience)]
    /\ UNCHANGED handlerVars

BonusNext == CalcBonus

SpecBonus == BonusInit /\ [][BonusNext]_vars

----------------------------------------------------------------------------
(* Properties of calculate_skill_bonus (specification SpecBonus) *)

\* skill occurs in text as a substring, letter case ignored
OccursIgnoringCase(skill, text) ==
    \E off \in 0..(Len(text) - Len(skill)) :
        \A j \in 1..Len(skill) : LowerChar(skill[j]) = LowerChar(text[off + j])

\* the list positions whose skill occurs in the text
MatchingPositions(c) ==
    {i \in 1..Len(c.skills) : OccursIgnoringCase(c.skills[i], c.resume_text)}

\* C8: for a skill list of size N > 0 of which K positions hold a skill that
\* occurs (case-insensitively) in the resume text, the skill component is
\* (K/N)*0.5, a duplicated skill counting once per position; for N = 0 it is 0.
C8_SkillComponent ==
    call.pc = "returned" =>
        LET N == Len(call.skills)
            K == Cardinality(MatchingPositions(call))
        IN  IF N > 0 THEN call.skill_part * 2 * N = K * ONE
            ELSE call.skill_part = 0

\* a list of three skills, the first two the same skill, both found, the
\* third not: the component is (2/3)*0.5
C8_Witness ==
    /\ call.pc = "returned"
    /\ Len(call.skills) = 3
    /\ call.skills[1] = call.skills[2]
    /\ MatchingPositions(call) = {1, 2}
    /\ call.skill_part * 3 = ONE

\* the phrases the experience block probes for min_experience = m
ProbedPhrases(m) ==
    {IntStr(m) \o YearsSuffix, IntStr(m) \o PlusYearsSuffix}
    \cup {IntStr(n) \o YearsSuffix : n \in (m + 1)..(m + 19)}

ProbedPresent(c) ==
    {p \in ProbedPhrases(c.min_experience) : IsSubstr(p, Lower(c.resume_text))}

\* C9 as stated: for every min_experience >= 0 for which the bonus is computed
\* (skills requested or min_experience > 0) the experience component is 0.3
\* when one of the 21 probed phrases occurs in the lower-cased text, else 0.
C9_AsStated ==
    (/\ call.pc = "returned"
     /\ call.min_experience >= 0
     /\ (call.skills # <<>> \/ call.min_experience > 0))
    => call.exp_part = (IF ProbedPresent(call) # {} THEN (3 * ONE) \div 10 ELSE 0)

\* C9 amended: for min_experience > 0 the experience component is exactly 0.3
\* when one of the 21 probed phrases occurs in the lower-cased text and exactly
\* 0 otherwise, however many phrases match; for min_experience = 0 the
\* experience block is skipped and the component is 0 whatever the text holds.
C9_ExperienceComponent ==
    call.pc = "returned" =>
        /\ call.min_experience > 0 =>
              /\ Cardinality(ProbedPhrases(call.min_experience)) = 21
              /\ call.exp_part =
                    (IF ProbedPresent(call) # {} THEN (3 * ONE) \div 10 ELSE 0)
        /\ call.min_experience = 0 => call.exp_part = 0

\* min_experience > 0 and two different probed phrases occur: 0.3, not 0.6
C9_Witness ==
    /\ call.pc = "returned"
    /\ call.min_experience > 0
    /\ Cardinality(ProbedPresent(call)) >= 2
    /\ call.exp_part = (3 * ONE) \div 10

----------------------------------------------------------------------------
(* Files, paths and Python dicts *)

ExtPdf == <<"p","d","f">>

ExtDocx == <<"d","o","c","x">>

ExtTxt == <<"t","x","t">>

ExtZip == <<"z","i","p">>

\* ['.pdf', '.docx', '.txt']
SupportedExts == {ExtPdf, ExtDocx, ExtTxt}

\* a file name: its stem and the characters after the last dot
FileName(stem, ext) == [stem |-> stem, ext |-> ext]

\* Path(name).suffix.lower()
SuffixLower(name) == Lower(name.ext)

\* os.path.join(temp_dir, d1, ..., name), relative to the scratch directory
PathOf(dir, name) == [dir |-> dir, name |-> name]

\* the directory part of a declared filename: the client may send one, as in
\* "../x.pdf" or "sub/x.pdf"; a plain name has none
DirOf(filename) ==
    IF "dir" \in DOMAIN filename THEN filename.dir ELSE <<>>

\* the last component of a declared filename
BaseName(filename) == FileName(filename.stem, filename.ext)

\* the path lies outside the scratch directory
Outside(path) == path.dir # <<>> /\ path.dir[1] = ".."

\* the directory exists: the scratch directory itself, its parent, or a
\* directory that holds a file
DirExists(t, dir) ==
    \/ dir = <<>>
    \/ dir = <<"..">>
    \/ \E q \in DOMAIN t : /\ Len(q.dir) >= Len(dir)
                           /\ SubSeq(q.dir, 1, Len(dir)) = dir

EmptyDict == <<>>

DictKeys(d) == {d[i].k : i \in 1..Len(d)}

DictGet(d, key) == d[CHOOSE i \in 1..Len(d) : d[i].k = key].v

\* d[key] = value: an existing key keeps its position, a new one is appended
DictSet(d, key, value) ==
    IF key \in DictKeys(d)
    THEN [i \in 1..Len(d) |-> IF d[i].k = key THEN [k |-> key, v |-> value]
                                              ELSE d[i]]
    ELSE Append(d, [k |-> key, v |-> value])

\* d.update(e)
RECURSIVE DictUpdateFrom(_, _, _)
DictUpdateFrom(d, e, i) ==
    IF i > Len(e) THEN d
    ELSE DictUpdateFrom(DictSet(d, e[i].k, e[i].v), e, i + 1)

DictUpdate(d, e) == DictUpdateFrom(d, e, 1)

\* the file system under the scratch directory: path -> [content, src], src
\* the position in the request of the upload that wrote the file
WriteFile(t, path, content, src) ==
    [p \in (DOMAIN t) \cup {path} |->
        IF p = path THEN [content |-> content, src |-> src] ELSE t[p]]

RECURSIVE SetToSeq(_)
SetToSeq(S) ==
    IF S = {} THEN <<>>
    ELSE LET x == CHOOSE x \in S : TRUE IN <<x>> \o SetToSeq(S \ {x})

Reverse(s) == [i \in 1..Len(s) |-> s[Len(s) + 1 - i]]

\* the order in which a directory lists its entries is the file system's:
\* one of two opposite orders, picked by rev
ListDir(S, rev) == IF rev THEN Reverse(SetToSeq(S)) ELSE SetToSeq(S)

RECURSIVE Walk(_, _, _)
RECURSIVE WalkChildren(_, _, _, _, _)
\* os.walk(top), top-down: the files of a directory, then each subdirectory
Walk(t, dir, rev) ==
    LET under == {p \in DOMAIN t : /\ Len(p.dir) >= Len(dir)
                                   /\ SubSeq(p.dir, 1, Len(dir)) = dir}
        files == {p \in under : p.dir = dir}
        subdirs == {p.dir[Len(dir) + 1] : p \in under \ files} \ {".."}
    IN  ListDir(files, rev) \o WalkChildren(t, dir, ListDir(subdirs, rev), 1, rev)

WalkChildren(t, dir, subdirs, i, rev) ==
    IF i > Len(subdirs) THEN <<>>
    ELSE Walk(t, Append(dir, subdirs[i]), rev)
         \o WalkChildren(t, dir, subdirs, i + 1, rev)

----------------------------------------------------------------------------
(* utils.py: extract_resumes_from_zip, process_resume_files *)

\* zip_ref.extractall(temp_dir): every entry is written, over what is there
RECURSIVE ExtractAllFrom(_, _, _, _)
ExtractAllFrom(t, entries, i, src) ==
    IF i > Len(entries) THEN t
    ELSE ExtractAllFrom(WriteFile(t, entries[i].path, entries[i].content, src),
                        entries, i + 1, src)

\* the loop over os.walk(temp_dir): resumes[file] = os.path.join(root, file)
RECURSIVE CollectWalked(_, _, _)
CollectWalked(found, walked, i) ==
    IF i > Len(walked) THEN found
    ELSE CollectWalked(
             IF SuffixLower(walked[i].name) \in SupportedExts
             THEN DictSet(found, walked[i].name, walked[i])
             ELSE found,
             walked, i + 1)

\* extract_resumes_from_zip(zip_path, temp_dir); upload is the ZIP at zip_path.
\* An unreadable archive raises inside the try and is re-raised as Exception.
extract_resumes_from_zip(upload, src, t, rev) ==
    IF upload.corrupt
    THEN [status |-> "Exception", resumes |-> EmptyDict, tree |-> t]
    ELSE LET t2 == ExtractAllFrom(t, SetToSeq(upload.entries), 1, src)
         IN  [status |-> "ok",
              resumes |-> CollectWalked(EmptyDict, Walk(t2, <<>>, rev), 1),
              tree |-> t2]

\* temp_path = os.path.join(temp_dir, file.filename), relative to temp_dir
TempPath(filename) == PathOf(DirOf(filename), BaseName(filename))

\* the loop of process_resume_files from file i on; open(temp_path, 'wb')
\* raises when the directory of temp_path does not exist; acc holds the dict
\* resumes, the scratch directory's files, and the history of the values
\* extract_resumes_from_zip returned
RECURSIVE ProcessFrom(_, _, _, _)
ProcessFrom(files, i, acc, rev) ==
    IF i > Len(files) THEN [status |-> "ok", resumes |-> acc.resumes,
                            tree |-> acc.tree, expanded |-> acc.expanded]
    ELSE LET file == files[i]
             temp_path == TempPath(file.filename)
             written == WriteFile(acc.tree, temp_path, file.content, i)
             ext == SuffixLower(file.filename)
         IN  IF ~DirExists(acc.tree, temp_path.dir)
             THEN [status |-> "Exception", resumes |-> acc.resumes,
                   tree |-> acc.tree, expanded |-> acc.expanded]
             ELSE IF ext = ExtZip
             THEN LET extracted == extract_resumes_from_zip(file, i, written, rev)
                  IN  IF extracted.status # "ok"
                      THEN [status |-> extracted.status,
                            resumes |-> acc.resumes, tree |-> extracted.tree,
                            expanded |-> acc.expanded]
                      ELSE ProcessFrom(files, i + 1,
                               [resumes |-> DictUpdate(acc.resumes,
                                                       extracted.resumes),
                                tree |-> extracted.tree,
                                expanded |-> Append(acc.expanded,
                                    [src |-> i, resumes |-> extracted.resumes])],
                               rev)
             ELSE IF ext \in SupportedExts
             THEN ProcessFrom(files, i + 1,
                      [resumes |-> DictSet(acc.resumes, file.filename, temp_path),
                       tree |-> written, expanded |-> acc.expanded], rev)
             ELSE [status |-> "ValueError", resumes |-> acc.resumes,
                   tree |-> written, expanded |-> acc.expanded]

process_resume_files(files, rev) ==
    ProcessFrom(files, 1,
                [resumes |-> EmptyDict, tree |-> <<>>, expanded |-> <<>>], rev)

----------------------------------------------------------------------------
(* utils.py: extract_text_from_file, extract_all_resume_texts *)

\* what the PDF, DOCX or text reader makes of a file's bytes: the stripped
\* text, or a failure for bytes it cannot read
ContentText(content) ==
    CASE content = "A" -> [status |-> "ok", text |-> TextPython3]
      [] content = "B" -> [status |-> "ok", text |-> TextDjango13]
      [] content = "C" -> [status |-> "ok", text |-> TextPlus2]
      [] content = "D" -> [status |-> "ok", text |-> <<>>]
      [] OTHER -> [status |-> "Exception", text |-> <<>>]

extract_text_from_file(file_path, t) ==
    IF SuffixLower(file_path.name) \in SupportedExts
    THEN ContentText(t[file_path].content)
    ELSE [status |-> "ValueError", text |-> <<>>]

\* the mutated loop lets the first failure end the batch
RECURSIVE ExtractLoopAborting(_, _, _, _)
ExtractLoopAborting(resume_texts_, resumes_, i, t) ==
    IF i > Len(resumes_) THEN [status |-> "ok", texts |-> resume_texts_]
    ELSE LET got == extract_text_from_file(resumes_[i].v, t)
         IN  IF got.status = "ok"
             THEN ExtractLoopAborting(
                      DictSet(resume_texts_, resumes_[i].k, got.text),
                      resumes_, i + 1, t)
             ELSE [status |-> "ok", texts |-> resume_texts_]

\* the loop of extract_all_resume_texts: except Exception catches every
\* failure of extract_text_from_file, prints a warning and goes on
RECURSIVE ExtractLoop(_, _, _, _)
ExtractLoop(resume_texts_, resumes_, i, t) ==
    IF i > Len(resumes_) THEN [status |-> "ok", texts |-> resume_texts_]
    ELSE LET got == extract_text_from_file(resumes_[i].v, t)
         IN  IF got.status = "ok"
             THEN ExtractLoop(DictSet(resume_texts_, resumes_[i].k, got.text),
                              resumes_, i + 1, t)
             ELSE ExtractLoop(resume_texts_, resumes_, i + 1, t)

extract_all_resume_texts(resumes_, t) == ExtractLoop(EmptyDict, resumes_, 1, t)

----------------------------------------------------------------------------
(* Request parsing, scoring and ranking shared by the handlers *)

\* str.split(sep) for a one-character separator
RECURSIVE Split(_, _)
Split(s, sep) ==
    IF \E i \in 1..Len(s) : s[i] = sep
    THEN LET i == CHOOSE i \in 1..Len(s) :
                      /\ s[i] = sep
                      /\ \A j \in 1..(i - 1) : s[j] # sep
         IN  <<SubSeq(s, 1, i - 1)>> \o Split(SubSeq(s, i + 1, Len(s)), sep)
    ELSE <<s>>

\* str.strip() where the only whitespace is the space character
RECURSIVE Strip(_)
Strip(s) ==
    IF s = <<>> THEN s
    ELSE IF Head(s) = " " THEN Strip(Tail(s))
    ELSE IF s[Len(s)] = " " THEN Strip(SubSeq(s, 1, Len(s) - 1))
    ELSE s

\* [s.strip() for s in skills.split(',') if s.strip()]; an absent or empty
\* skills field gives the empty list
ParseSkills(skills) ==
    LET parts == Split(skills, ",")
        stripped == [i \in 1..Len(parts) |-> Strip(parts[i])]
    IN  SelectSeq(stripped, LAMBDA s : s # <<>>)

\* the mutated blend swaps the two weights
BlendSimilaritySwapped(similarity_score, bonus_score) ==
    (2 * similarity_score) + (8 * bonus_score)

\* app.py final_score = similarity*0.8 + bonus*0.2, in tenths of a unit
BlendSimilarity(similarity_score, bonus_score) ==
    (8 * similarity_score) + (2 * bonus_score)

\* views.py final_score = confidence*0.5 + relevance*0.3 + bonus*0.2, in
\* tenths of a unit
BlendClassification(confidence, relevance, bonus) ==
    (5 * confidence) + (3 * relevance) + (2 * bonus)

\* bonus = 0.0, replaced by calculate_skill_bonus when skills were given or
\* min_experience > 0
BonusFor(resume_text, skills_list, min_experience) ==
    IF skills_list # <<>> \/ min_experience > 0
    THEN calculate_skill_bonus(resume_text, skills_list, min_experience)
    ELSE 0

\* the whitespace-separated words of a lower-cased string
WordsOf(s) ==
    LET parts == Split(Lower(s), " ")
    IN  {parts[i] : i \in 1..Len(parts)} \ {<<>>}

\* |words(job) & words(resume)| / |words(job)|, 0 for a job without words
calculate_job_relevance(resume_text, job_circular) ==
    LET job == WordsOf(job_circular)
    IN  IF job = {} THEN 0
        ELSE (Cardinality(job \cap WordsOf(resume_text)) * ONE)
             \div Cardinality(job)

\* the mutated sort puts a result ahead of earlier results with the same key
RECURSIVE InsertTiesFirst(_, _)
InsertTiesFirst(sorted, x) ==
    IF sorted = <<>> THEN <<x>>
    ELSE IF Head(sorted).final_score > x.final_score
         THEN <<Head(sorted)>> \o InsertTiesFirst(Tail(sorted), x)
         ELSE <<x>> \o sorted

\* place x after every result whose final_score is not smaller
RECURSIVE InsertDescending(_, _)
InsertDescending(sorted, x) ==
    IF sorted = <<>> THEN <<x>>
    ELSE IF Head(sorted).final_score >= x.final_score
         THEN <<Head(sorted)>> \o InsertDescending(Tail(sorted), x)
         ELSE <<x>> \o sorted

\* results.sort(key=lambda x: x["final_score"], reverse=True): stable
RECURSIVE SortFrom(_, _, _)
SortFrom(sorted, rs, i) ==
    IF i > Len(rs) THEN sorted
    ELSE SortFrom(InsertDescending(sorted, rs[i]), rs, i + 1)

SortByFinalScore(rs) == SortFrom(<<>>, rs, 1)

\* the mutated slice keeps top_k + 1 results
SliceOffByOne(rs, top_k) ==
    IF top_k >= 0 THEN SubSeq(rs, 1, Min(top_k + 1, Len(rs)))
    ELSE SubSeq(rs, 1, Max(Len(rs) + top_k, 0))

\* results[:top_k]
SliceTo(rs, top_k) ==
    IF top_k >= 0 THEN SubSeq(rs, 1, Min(top_k, Len(rs)))
    ELSE SubSeq(rs, 1, Max(Len(rs) + top_k, 0))

----------------------------------------------------------------------------
(* The requests the handlers are driven with *)

\* a directly uploaded document
Document(stem, ext, content) ==
    [filename |-> FileName(stem, ext), content |-> content, corrupt |-> FALSE,
     entries |-> {}]

\* an uploaded ZIP archive with its entries
Archive(stem, corrupt, entries) ==
    [filename |-> FileName(stem, ExtZip), content |-> "zip", corrupt |-> corrupt,
     entries |-> entries]

Entry(dir, stem, ext, content) ==
    [path |-> PathOf(dir, FileName(stem, ext)), content |-> content]

UploadXPdf == Document("x", ExtPdf, "A")

UploadYTxt == Document("y", ExtTxt, "B")

UploadBrokenDocx == Document("c", ExtDocx, "unreadable")

UploadExe == Document("m", <<"e","x","e">>, "E")

\* two PDFs (one in a subdirectory) and one .exe
ArchiveA ==
    Archive("a", FALSE,
            {Entry(<<"sub">>, "x", ExtPdf, "C"), Entry(<<>>, "q", ExtPdf, "B"),
             Entry(<<>>, "m", <<"e","x","e">>, "E")})

\* a PDF at the top, an upper-case .TXT and a nested ZIP
ArchiveB ==
    Archive("b", FALSE,
            {Entry(<<>>, "x", ExtPdf, "D"), Entry(<<"deep">>, "Y", <<"T","X","T">>, "A"),
             Entry(<<"deep">>, "in", ExtZip, "zip")})

ArchiveBroken == Archive("bad", TRUE, {})

Uploads ==
    {UploadXPdf, UploadYTxt, UploadBrokenDocx, UploadExe, ArchiveA, ArchiveB,
     ArchiveBroken}

FileLists == UNION {[1..n -> Uploads] : n \in 1..MaxFiles}

SkillsRawTwo == <<"p","y","t","h","o","n",","," ","D","j","a","n","g","o">>

SkillsRawBlank == <<" ",",">>

JobCircular == <<"P","y","t","h","o","n"," ","d","j","a","n","g","o"," ","d","e","v","e","l","o","p","e","r">>

TopKs == (-1)..MaxTopK

Requests ==
    [job_circular : {JobCircular}, resume_files : FileLists, top_k : TopKs,
     skills : {<<>>, SkillsRawTwo, SkillsRawBlank}, min_experience : {0, 2}]

\* what the embedding model's cosine similarity, or the classifier's
\* confidence, can come out as: 0.50001 and 0.50004, which differ but blend
\* to the same surfaced score; bonus and relevance set results apart
ModelOutputs == {600012, 600048}

\* how a call into the model ends: normally, or raising
InferenceOutcomes == {"ok", "ValueError", "Exception"}

ErrorResponse(status, error) ==
    [status |-> status, error |-> error, ranked_resumes |-> <<>>,
     total_resumes |-> 0, top_k |-> 0]

\* the mutated handler has a single except clause answering 500
ExceptResponseAll500(exc) == ErrorResponse(500, "Internal server error")

\* the except clauses of both handlers: ValueError -> 400, Exception -> 500
ExceptResponse(exc) ==
    IF exc = "ValueError" THEN ErrorResponse(400, "Validation error")
    ELSE ErrorResponse(500, "Internal server error")

Init ==
    /\ handler \in {"app", "views"}
    /\ request \in Requests
    /\ pc = "start"
    /\ temp_dir = 0
    /\ dirs = {}
    /\ tree = <<>>
    /\ resumes = EmptyDict
    /\ expanded = <<>>
    /\ resume_texts = EmptyDict
    /\ results = <<>>
    /\ response = NoResponse
    /\ temp_dirs = <<>>
    /\ call = NoCall

----------------------------------------------------------------------------
(* app.py: rank_resumes *)

\* shutil.rmtree(temp_dir, ignore_errors=True): the directory is gone
rmtree(existing, d) == existing \ {d}

\* the files the request wrote that are still there once the scratch
\* directory has been removed: those written outside it
LeftBehind(t) == [p \in {q \in DOMAIN t : Outside(q)} |-> t[p]]

\* temp_dir = tempfile.mkdtemp(); temp_dirs.append(temp_dir).  mkdtemp may
\* raise OSError, which the handler answers with 500.
RankResumes_MkTemp ==
    /\ handler = "app" /\ pc = "start"
    /\ \E made \in BOOLEAN :
          IF made
          THEN /\ temp_dir' = Len(temp_dirs) + 1
               /\ dirs' = dirs \cup {Len(temp_dirs) + 1}
               /\ temp_dirs' = Append(temp_dirs, Len(temp_dirs) + 1)
               /\ pc' = "ingest"
               /\ UNCHANGED response
          ELSE /\ response' = ExceptResponse("Exception")
               /\ pc' = "finally"
               /\ UNCHANGED <<temp_dir, dirs, temp_dirs>>
    /\ UNCHANGED <<handler, request, expanded, tree, resumes, resume_texts, results, call>>

\* resumes = process_resume_files(resume_files, temp_dir)
RankResumes_Ingest ==
    /\ handler = "app" /\ pc = "ingest"
    /\ \E rev \in BOOLEAN :
          LET got == process_resume_files(request.resume_files, rev)
          IN  /\ tree' = got.tree
              /\ expanded' = got.expanded
              /\ IF got.status = "ok"
                 THEN /\ resumes' = got.resumes
                      /\ pc' = "extract"
                      /\ UNCHANGED response
                 ELSE /\ response' = ExceptResponse(got.status)
                      /\ pc' = "finally"
                      /\ UNCHANGED resumes
    /\ UNCHANGED <<handler, request, temp_dir, dirs, resume_texts, results,
                   temp_dirs, call>>

\* resume_texts = extract_all_resume_texts(resumes); 400 when it is empty
RankResumes_Extract ==
    /\ handler = "app" /\ pc = "extract"
    /\ LET got == extract_all_resume_texts(resumes, tree)
       IN  IF got.status # "ok"
           THEN /\ response' = ExceptResponse(got.status)
                /\ pc' = "finally"
                /\ UNCHANGED resume_texts
           ELSE /\ resume_texts' = got.texts
                /\ IF got.texts = EmptyDict
                   THEN /\ response' = ErrorResponse(400,
                               "Could not extract text from any resume files")
                        /\ pc' = "finally"
                   ELSE /\ pc' = "score"
                        /\ UNCHANGED response
    /\ UNCHANGED <<handler, request, expanded, temp_dir, dirs, tree, resumes, results,
                   temp_dirs, call>>

\* one pass of the scoring loop: similarity and bonus are the loop's locals
SimilarityResult(filename, resume_text, similarity, skills_list, min_experience) ==
    LET bonus == BonusFor(resume_text, skills_list, min_experience)
    IN  [filename |-> filename,
         similarity |-> similarity,
         bonus |-> bonus,
         similarity_score |-> Round4(10 * similarity),
         bonus_score |-> Round4(10 * bonus),
         final_score |-> Round4(BlendSimilarity(similarity, bonus))]

\* model.encode on the job circular and on each resume, the cosine
\* similarities and the results list; an exception of the model ends the try
RankResumes_Score ==
    /\ handler = "app" /\ pc = "score"
    /\ \E outcome \in InferenceOutcomes :
          IF outcome = "ok"
          THEN /\ \E sims \in [1..Len(resume_texts) -> ModelOutputs] :
                     results' = [i \in 1..Len(resume_texts) |->
                                    SimilarityResult(resume_texts[i].k,
                                                     resume_texts[i].v, sims[i],
                                                     ParseSkills(request.skills),
                                                     request.min_experience)]
               /\ pc' = "rank"
               /\ UNCHANGED response
          ELSE /\ response' = ExceptResponse(outcome)
               /\ pc' = "finally"
               /\ UNCHANGED results
    /\ UNCHANGED <<handler, request, expanded, temp_dir, dirs, tree, resumes,
                   resume_texts, temp_dirs, call>>

\* results.sort(...); top_results = results[:top_k]; the 200 response
RankResumes_Rank ==
    /\ handler = "app" /\ pc = "rank"
    /\ results' = SortByFinalScore(results)
    /\ response' = [status |-> 200, error |-> "",
                    ranked_resumes |-> SliceTo(SortByFinalScore(results),
                                               request.top_k),
                    total_resumes |-> Len(resume_texts),
                    top_k |-> request.top_k]
    /\ pc' = "finally"
    /\ UNCHANGED <<handler, request, expanded, temp_dir, dirs, tree, resumes,
                   resume_texts, temp_dirs, call>>

\* the mutated handler cleans up at the end of the try block only
RankResumes_FinallyOnSuccess ==
    /\ handler = "app" /\ pc = "finally"
    /\ IF temp_dir # 0 /\ temp_dir \in dirs /\ response.status = 200
       THEN /\ dirs' = rmtree(dirs, temp_dir)
            /\ tree' = LeftBehind(tree)
       ELSE UNCHANGED <<dirs, tree>>
    /\ pc' = "done"
    /\ UNCHANGED <<handler, request, expanded, temp_dir, resumes, resume_texts, results,
                   response, temp_dirs, call>>

\* finally: if temp_dir and os.path.exists(temp_dir): shutil.rmtree(...);
\* then the response is returned
RankResumes_Finally ==
    /\ handler = "app" /\ pc = "finally"
    /\ IF temp_dir # 0 /\ temp_dir \in dirs
       THEN /\ dirs' = rmtree(dirs, temp_dir)
            /\ tree' = LeftBehind(tree)
       ELSE UNCHANGED <<dirs, tree>>
    /\ pc' = "done"
    /\ UNCHANGED <<handler, request, expanded, temp_dir, resumes, resume_texts, results,
                   response, temp_dirs, call>>

----------------------------------------------------------------------------
(* views.py: ResumeClassifyAPIView.post, with serializers.py *)

\* ResumeUploadSerializer.is_valid(): job_circular and resume_files present,
\* top_k >= 1, min_experience >= 0
SerializerValid(req) ==
    /\ req.job_circular # <<>>
    /\ req.resume_files # <<>>
    /\ req.top_k >= 1
    /\ req.min_experience >= 0

\* the 400 for an invalid serializer is returned before the try block
Post_Validate ==
    /\ handler = "views" /\ pc = "start"
    /\ IF SerializerValid(request)
       THEN /\ pc' = "mktemp"
            /\ UNCHANGED response
       ELSE /\ response' = ErrorResponse(400, "Validation error")
            /\ pc' = "done"
    /\ UNCHANGED <<handler, request, expanded, temp_dir, dirs, tree, resumes,
                   resume_texts, results, temp_dirs, call>>

\* temp_dir = tempfile.mkdtemp()
Post_MkTemp ==
    /\ handler = "views" /\ pc = "mktemp"
    /\ \E made \in BOOLEAN :
          IF made
          THEN /\ temp_dir' = Cardinality(dirs) + 1
               /\ dirs' = dirs \cup {Cardinality(dirs) + 1}
               /\ pc' = "ingest"
               /\ UNCHANGED response
          ELSE /\ response' = ExceptResponse("Exception")
               /\ pc' = "finally"
               /\ UNCHANGED <<temp_dir, dirs>>
    /\ UNCHANGED <<handler, request, expanded, tree, resumes, resume_texts, results,
                   temp_dirs, call>>

\* resumes = process_resume_files(files, temp_dir)
Post_Ingest ==
    /\ handler = "views" /\ pc = "ingest"
    /\ \E rev \in BOOLEAN :
          LET got == process_resume_files(request.resume_files, rev)
          IN  /\ tree' = got.tree
              /\ expanded' = got.expanded
              /\ IF got.status = "ok"
                 THEN /\ resumes' = got.resumes
                      /\ pc' = "extract"
                      /\ UNCHANGED response
                 ELSE /\ response' = ExceptResponse(got.status)
                      /\ pc' = "finally"
                      /\ UNCHANGED resumes
    /\ UNCHANGED <<handler, request, temp_dir, dirs, resume_texts, results,
                   temp_dirs, call>>

\* resume_texts = extract_all_resume_texts(resumes); 400 when it is empty
Post_Extract ==
    /\ handler = "views" /\ pc = "extract"
    /\ LET got == extract_all_resume_texts(resumes, tree)
       IN  IF got.status # "ok"
           THEN /\ response' = ExceptResponse(got.status)
                /\ pc' = "finally"
                /\ UNCHANGED resume_texts
           ELSE /\ resume_texts' = got.texts
                /\ IF got.texts = EmptyDict
                   THEN /\ response' = ErrorResponse(400,
                               "Could not extract text from any resume files")
                        /\ pc' = "finally"
                   ELSE /\ pc' = "score"
                        /\ UNCHANGED response
    /\ UNCHANGED <<handler, request, expanded, temp_dir, dirs, tree, resumes, results,
                   temp_dirs, call>>

\* one pass of the loop over predictions
ClassificationResult(filename, resume_text, confidence, job_circular, skills_list, min_experience) ==
    LET relevance == calculate_job_relevance(resume_text, job_circular)
        bonus == BonusFor(resume_text, skills_list, min_experience)
    IN  [filename |-> filename,
         confidence |-> Round4(10 * confidence),
         job_relevance |-> Round4(10 * relevance),
         skill_bonus |-> Round4(10 * bonus),
         final_score |-> Round4(BlendClassification(confidence, relevance,
                                                    bonus))]

\* predictions = classifier.predict_batch(resume_texts) and the results list;
\* an exception of the classifier ends the try
Post_Score ==
    /\ handler = "views" /\ pc = "score"
    /\ \E outcome \in InferenceOutcomes :
          IF outcome = "ok"
          THEN /\ \E conf \in [1..Len(resume_texts) -> ModelOutputs] :
                     results' = [i \in 1..Len(resume_texts) |->
                                    ClassificationResult(resume_texts[i].k,
                                        resume_texts[i].v, conf[i],
                                        request.job_circular,
                                        ParseSkills(request.skills),
                                        request.min_experience)]
               /\ pc' = "rank"
               /\ UNCHANGED response
          ELSE /\ response' = ExceptResponse(outcome)
               /\ pc' = "finally"
               /\ UNCHANGED results
    /\ UNCHANGED <<handler, request, expanded, temp_dir, dirs, tree, resumes,
                   resume_texts, temp_dirs, call>>

\* results.sort(...); results = results[:top_k]; the 200 response
Post_Rank ==
    /\ handler = "views" /\ pc = "rank"
    /\ results' = SortByFinalScore(results)
    /\ response' = [status |-> 200, error |-> "",
                    ranked_resumes |-> SliceTo(SortByFinalScore(results),
                                               request.top_k),
                    total_resumes |-> Len(resumes),
                    top_k |-> request.top_k]
    /\ pc' = "finally"
    /\ UNCHANGED <<handler, request, expanded, temp_dir, dirs, tree, resumes,
                   resume_texts, temp_dirs, call>>

\* finally: if temp_dir: shutil.rmtree(temp_dir, ignore_errors=True); then
\* the response is returned
Post_Finally ==
    /\ handler = "views" /\ pc = "finally"
    /\ IF temp_dir # 0
       THEN /\ dirs' = rmtree(dirs, temp_dir)
            /\ tree' = LeftBehind(tree)
       ELSE UNCHANGED <<dirs, tree>>
    /\ pc' = "done"
    /\ UNCHANGED <<handler, request, expanded, temp_dir, resumes, resume_texts, results,
                   response, temp_dirs, call>>

----------------------------------------------------------------------------

Next ==
    \/ RankResumes_MkTemp
    \/ RankResumes_Ingest
    \/ RankResumes_Extract
    \/ RankResumes_Score
    \/ RankResumes_Rank
    \/ RankResumes_Finally
    \/ Post_Validate
    \/ Post_MkTemp
    \/ Post_Ingest
    \/ Post_Extract
    \/ Post_Score
    \/ Post_Rank
    \/ Post_Finally

Spec == Init /\ [][Next]_vars

----------------------------------------------------------------------------
(* Properties of the handlers (specification Spec) *)

Returned == pc = "done"

\* C1: in either handler, once a request that created a scratch directory has
\* returned, the scratch directory no longer exists, whichever exit was
\* taken: the ranking, the 400 for an unsupported file or for no extractable
\* text, or the 500 for an unexpected error.
C1_ScratchRemoved ==
    (Returned /\ temp_dir # 0) => temp_dir \notin dirs

\* a request that created its scratch directory and ended in the 500 branch
C1_Witness ==
    /\ Returned
    /\ temp_dir # 0
    /\ temp_dir \notin dirs
    /\ response.status = 500

\* a directly uploaded file whose extension is none of .pdf .docx .txt .zip
Unsupported(file) ==
    SuffixLower(file.filename) \notin (SupportedExts \cup {ExtZip})

\* C3 as stated: a request holding a directly uploaded file of unsupported
\* extension, at any position, produces no ranking and is answered with 400.
C3_AsStated ==
    (/\ Returned
     /\ temp_dir # 0
     /\ \E i \in 1..Len(request.resume_files) :
            Unsupported(request.resume_files[i]))
    => /\ response.status = 400
       /\ response.ranked_resumes = <<>>
       /\ results = <<>>

\* an earlier upload is a ZIP that cannot be read
UnreadableZipBefore(i) ==
    \E j \in 1..(i - 1) :
        /\ SuffixLower(request.resume_files[j].filename) = ExtZip
        /\ request.resume_files[j].corrupt

\* C3 amended: a directly uploaded file of unsupported extension fails the
\* whole batch whatever its position and whatever surrounds it, and no ranking
\* is produced; the answer is 400 when everything uploaded before it was
\* ingested without error, and 500 when a ZIP before it could not be read
\* (that earlier failure is the one answered).
C3_UnsupportedAborts ==
    (/\ Returned
     /\ temp_dir # 0
     /\ \E i \in 1..Len(request.resume_files) :
            Unsupported(request.resume_files[i]))
    => LET first == CHOOSE i \in 1..Len(request.resume_files) :
                        /\ Unsupported(request.resume_files[i])
                        /\ \A j \in 1..(i - 1) :
                               ~Unsupported(request.resume_files[j])
       IN  /\ response.ranked_resumes = <<>>
           /\ results = <<>>
           /\ resumes = EmptyDict
           /\ response.status = (IF UnreadableZipBefore(first) THEN 500 ELSE 400)

\* supported files before and after the unsupported one, answered 400
C3_Witness ==
    /\ Returned
    /\ temp_dir # 0
    /\ Len(request.resume_files) >= 2
    /\ ~Unsupported(request.resume_files[1])
    /\ Unsupported(request.resume_files[2])
    /\ response.status = 400
    /\ response.ranked_resumes = <<>>

\* upload j supplies a document named key
Supplies(file, key) ==
    IF SuffixLower(file.filename) = ExtZip
    THEN \E e \in file.entries : e.path.name = key
    ELSE file.filename = key

\* the last upload of the request that supplies a document named key
LastSupplier(key) ==
    CHOOSE j \in 1..Len(request.resume_files) :
        /\ Supplies(request.resume_files[j], key)
        /\ \A l \in (j + 1)..Len(request.resume_files) :
               ~Supplies(request.resume_files[l], key)

\* C4: ingestion is last-write-wins: when several uploads supply a document
\* of one filename, the path process_resume_files records for the filename is
\* the file written by the upload processed last among them.
C4_LastWriteWins ==
    (pc = "extract") =>
        \A i \in 1..Len(resumes) :
            tree[resumes[i].v].src = LastSupplier(resumes[i].k)

\* the supported-extension entries of the ZIP uploaded at position src
SupportedEntries(src) ==
    {e.path : e \in {x \in request.resume_files[src].entries :
                        SuffixLower(x.path.name) \in SupportedExts}}

\* C5: what extract_resumes_from_zip returns for a ZIP is exactly the ZIP's
\* entries of extension .pdf, .docx or .txt (any case, any depth), every other
\* entry dropped: as many documents as there are such entries, each resolved
\* to the path of one of them.
C5_ZipYieldsItsSupportedEntries ==
    \A n \in 1..Len(expanded) :
        LET got == expanded[n].resumes
        IN  /\ {got[i].v : i \in 1..Len(got)} = SupportedEntries(expanded[n].src)
            /\ Len(got) = Cardinality(SupportedEntries(expanded[n].src))

\* the 200 response's list
Ranked == response.ranked_resumes

\* position of a filename in the extracted-text dict
TextPosition(filename) ==
    CHOOSE i \in 1..Len(resume_texts) : resume_texts[i].k = filename

\* C6: in both handlers ranked_resumes is sorted non-increasing by the
\* surfaced final_score, and results of equal final_score keep the order in
\* which their filenames were inserted in the extracted-text dict.
C6_SortedStable ==
    response.status = 200 =>
        \A i, j \in 1..Len(Ranked) :
            i < j =>
                /\ Ranked[i].final_score >= Ranked[j].final_score
                /\ Ranked[i].final_score = Ranked[j].final_score
                   => TextPosition(Ranked[i].filename)
                      < TextPosition(Ranked[j].filename)

\* two ranked results tie on the surfaced score
C6_Witness ==
    /\ response.status = 200
    /\ Len(Ranked) >= 2
    /\ Ranked[1].final_score = Ranked[2].final_score
    /\ Ranked[1].filename # Ranked[2].filename

\* C7: for top_k >= 1 and n >= 1 scored resumes the ranked list is the first
\* min(top_k, n) entries of the sorted list; top_k > n returns all n.
C7_TopK ==
    (response.status = 200 /\ request.top_k >= 1) =>
        /\ Len(results) = Len(resume_texts)
        /\ Len(results) >= 1
        /\ Len(Ranked) = Min(request.top_k, Len(results))
        /\ \A i \in 1..Len(Ranked) : Ranked[i] = results[i]

\* top_k larger than the population: everything is returned
C7_Witness ==
    /\ response.status = 200
    /\ request.top_k > Len(results)
    /\ Len(results) >= 1
    /\ Len(Ranked) = Len(results)

\* the bonus C10 names: calculate_skill_bonus when skills were requested or
\* min_experience > 0, otherwise 0
NamedBonus(filename) ==
    IF Len(ParseSkills(request.skills)) > 0 \/ request.min_experience > 0
    THEN calculate_skill_bonus(DictGet(resume_texts, filename),
                               ParseSkills(request.skills),
                               request.min_experience)
    ELSE 0

\* C10: in similarity mode every result's surfaced final_score is
\* round(similarity*0.8 + bonus*0.2, 4), the bonus being calculate_skill_bonus
\* when skills were requested or min_experience > 0 and 0 otherwise (stated
\* where the response has been built and is about to be returned).
C10_SimilarityFinalScore ==
    (handler = "app" /\ pc = "finally") =>
        /\ \A i \in 1..Len(results) :
              results[i].final_score =
                  Round4((8 * results[i].similarity)
                         + (2 * NamedBonus(results[i].filename)))
        /\ \A i \in 1..Len(Ranked) : \E j \in 1..Len(results) :
              Ranked[i] = results[j]

\* a ranked result with a bonus whose blend does not fall on a multiple of 1e-4
C10_Witness ==
    /\ handler = "app"
    /\ response.status = 200
    /\ \E i \in 1..Len(Ranked) :
          /\ NamedBonus(Ranked[i].filename) > 0
          /\ ((8 * Ranked[i].similarity) + (2 * Ranked[i].bonus))
             % ((10 * ONE) \div 10000) # 0

----------------------------------------------------------------------------
(* extract_all_resume_texts on its own (specification SpecExtract) *)

MaxDocs == 3

\* a scratch directory holding readable, unreadable, empty and unsupported
\* files
FixtureTree ==
    LET put(t, dir, stem, ext, content) ==
            WriteFile(t, PathOf(dir, FileName(stem, ext)), content, 1)
    IN  put(put(put(put(put(<<>>, <<>>, "x", ExtPdf, "A"),
                        <<>>, "c", ExtDocx, "unreadable"),
                    <<>>, "m", <<"e","x","e">>, "E"),
                <<"deep">>, "Y", <<"T","X","T">>, "B"),
            <<>>, "n", ExtPdf, "D")

\* the dicts filename -> path of up to MaxDocs of the fixture's files
ResumeDicts ==
    {d \in UNION {[1..n -> {[k |-> p.name, v |-> p] : p \in DOMAIN FixtureTree}] :
                     n \in 0..MaxDocs} :
        \A i, j \in 1..Len(d) : i # j => d[i].k # d[j].k}

ExtractInit ==
    /\ HandlerIdle
    /\ call \in [pc : {"called"}, resumes : ResumeDicts, status : {""},
                 texts : {EmptyDict}]

\* one call of extract_all_resume_texts
ExtractAll ==
    /\ call.pc = "called"
    /\ LET got == extract_all_resume_texts(call.resumes, FixtureTree)
       IN  call' = [call EXCEPT !.pc = "returned", !.status = got.status,
                                !.texts = got.texts]
    /\ UNCHANGED handlerVars

ExtractNext == ExtractAll

SpecExtract == ExtractInit /\ [][ExtractNext]_vars

\* the positions of the input whose document can be extracted
Extractable(c) ==
    {i \in 1..Len(c.resumes) :
        extract_text_from_file(c.resumes[i].v, FixtureTree).status = "ok"}

\* C2: extract_all_resume_texts never raises; its result holds exactly the
\* filenames whose extraction succeeded, each with its extracted text and in
\* the order of the input; a document that fails leaves no entry and does not
\* keep the documents after it from being extracted.
C2_FailuresSkipped ==
    call.pc = "returned" =>
        /\ call.status = "ok"
        /\ DictKeys(call.texts) = {call.resumes[i].k : i \in Extractable(call)}
        /\ Len(call.texts) = Cardinality(Extractable(call))
        /\ \A i \in Extractable(call) :
              DictGet(call.texts, call.resumes[i].k)
              = extract_text_from_file(call.resumes[i].v, FixtureTree).text
        /\ \A a, b \in 1..Len(call.texts) :
              a < b =>
                  (CHOOSE i \in 1..Len(call.resumes) :
                       call.resumes[i].k = call.texts[a].k)
                  < (CHOOSE i \in 1..Len(call.resumes) :
                         call.resumes[i].k = call.texts[b].k)

\* a document that fails is followed by one that is extracted
C2_Witness ==
    /\ call.pc = "returned"
    /\ \E i, j \in 1..Len(call.resumes) :
          /\ i < j
          /\ i \notin Extractable(call)
          /\ j \in Extractable(call)
          /\ call.resumes[j].k \in DictKeys(call.texts)

----------------------------------------------------------------------------
(* Further properties of the handlers (specification Spec) *)

\* the request got past text extraction with at least one text and did not
\* end in a ranking: the only step left that can fail is model inference
InferenceFailed ==
    /\ pc \in {"finally", "done"}
    /\ resume_texts # EmptyDict
    /\ response.status # 200

\* C11: a failure of model inference (embedding encode, scaler or classifier
\* predict), whatever the type of the exception raised, is answered with
\* status 500 and never with 400.
C11_InferenceFailureIs500 ==
    InferenceFailed => response.status = 500

\* C12: a request leaves the handler module's variables as it found them:
\* once it has returned, app.py's module-level list temp_dirs has the value
\* it had before the request began (the empty list of a fresh process).
C12_ModuleStateRestored ==
    Returned => temp_dirs = <<>>

\* C14: whatever integer top_k the client sent, a successful response holds
\* at most max(top_k, 0) ranked resumes: a top_k below 1 is rejected with a
\* 400 or gives an empty ranking.
C14_AtMostTopK ==
    response.status = 200 => Len(Ranked) <= Max(request.top_k, 0)


(* ------------------------------------------------------------------ *)
(* Declared filenames with directory parts (specification SpecTraversal) *)
(* ------------------------------------------------------------------ *)

\* an uploaded document whose declared filename has a directory part
DocumentAt(dir, stem, ext, content) ==
    [filename |-> [dir |-> dir, stem |-> stem, ext |-> ext],
     content |-> content, corrupt |-> FALSE, entries |-> {}]

\* declared as "../x.pdf"
UploadEscaping == DocumentAt(<<"..">>, "x", ExtPdf, "A")

\* declared as "sub/x.pdf"
UploadIntoSub == DocumentAt(<<"sub">>, "x", ExtPdf, "B")

TraversalUploads == {UploadXPdf, ArchiveA, UploadEscaping, UploadIntoSub}

TraversalFileLists == UNION {[1..n -> TraversalUploads] : n \in 1..MaxFiles}

TraversalRequests ==
    [job_circular : {JobCircular}, resume_files : TraversalFileLists,
     top_k : {MaxTopK}, skills : {<<>>}, min_experience : {0}]

InitTraversal ==
    /\ handler \in {"app", "views"}
    /\ request \in TraversalRequests
    /\ pc = "start"
    /\ temp_dir = 0
    /\ dirs = {}
    /\ tree = <<>>
    /\ resumes = EmptyDict
    /\ expanded = <<>>
    /\ resume_texts = EmptyDict
    /\ results = <<>>
    /\ response = NoResponse
    /\ temp_dirs = <<>>
    /\ call = NoCall

SpecTraversal == InitTraversal /\ [][Next]_vars

\* the file at path p holds the bytes of the upload that was written there by
\* process_resume_files itself (not an entry extracted from an archive)
WrittenAsUpload(p) ==
    p.name = BaseName(request.resume_files[tree[p].src].filename)

\* C13: every file process_resume_files writes for a direct upload lies
\* directly inside the request's scratch directory, whatever the declared
\* filename, and nothing the request wrote is left once it has returned.
C13_UploadsStayInScratch ==
    /\ \A p \in DOMAIN tree : WrittenAsUpload(p) => p.dir = <<>>
    /\ Returned => tree = <<>>

====
